---------------------------- MODULE Spec2Model ----------------------------
(***************************************************************************)
(* Model of mcp-w2vgrep: the text parsers of src/src/utils.ts and the      *)
(* semantic_search request handler of src/src/index.ts.                    *)
(*                                                                         *)
(* A string is a sequence of characters; a character is a one-character    *)
(* TLA+ string (ESC stands for the escape character U+001B).  Numbers      *)
(* parsed by parseInt are exact naturals (the line numbers modelled have   *)
(* a few digits, far below 2^53).  A similarity parsed by parseFloat is    *)
(* the exact decimal num / 10^exp, or NaN.                                  *)
(***************************************************************************)
EXTENDS Integers, Sequences, FiniteSets, TLC

(***************************************************************************)
(* Characters and character classes of the regular expressions.            *)
(***************************************************************************)
NL == "\n"
CR == "\r"
TAB == "\t"
SP == " "
ESC == "ESC"

\* \d
Digit == {"0", "1", "2", "3", "4", "5", "6", "7", "8", "9"}

\* \s (the white space and line terminators of the alphabet modelled)
WhiteSpace == {SP, TAB, NL, CR}

\* the characters "." does not match
LineTerminator == {NL, CR}

DigitChars == <<"0", "1", "2", "3", "4", "5", "6", "7", "8", "9">>

DigitVal(c) == CHOOSE v \in 0..9 : DigitChars[v + 1] = c

(***************************************************************************)
(* String primitives of the language runtime, as the code uses them.       *)
(***************************************************************************)
\* s.slice(i - 1)
SliceFrom(s, i) == SubSeq(s, i, Len(s))

\* whether lit occurs in s at (1-based) position i
StartsWithAt(s, i, lit) ==
    /\ i + Len(lit) - 1 <= Len(s)
    /\ SubSeq(s, i, i + Len(lit) - 1) = lit

\* s.startsWith(lit)
startsWith(s, lit) == StartsWithAt(s, 1, lit)

\* s.endsWith(lit)
endsWith(s, lit) == Len(lit) <= Len(s) /\ StartsWithAt(s, Len(s) - Len(lit) + 1, lit)

\* the least element of a non-empty set of numbers
Least(S) == CHOOSE x \in S : \A y \in S : x <= y

\* the least position >= i where lit occurs in s, 0 when there is none
IndexOf(s, lit, i) ==
    LET hits == {j \in i..(Len(s) - Len(lit) + 1) : StartsWithAt(s, j, lit)}
    IN  IF hits = {} THEN 0 ELSE Least(hits)

\* s.split(sep) for a non-empty separator
RECURSIVE split(_, _)
split(s, sep) ==
    LET j == IndexOf(s, sep, 1)
    IN  IF j = 0 THEN <<s>>
        ELSE <<SubSeq(s, 1, j - 1)>> \o split(SliceFrom(s, j + Len(sep)), sep)

\* parts.join(sep)
RECURSIVE join(_, _)
join(parts, sep) ==
    IF parts = <<>> THEN <<>>
    ELSE IF Len(parts) = 1 THEN parts[1]
    ELSE parts[1] \o sep \o join(Tail(parts), sep)

\* s.trim()
trim(s) ==
    LET keep == {i \in 1..Len(s) : s[i] \notin WhiteSpace}
    IN  IF keep = {} THEN <<>>
        ELSE SubSeq(s, Least(keep), CHOOSE i \in keep : \A j \in keep : j <= i)

\* the length of the longest run of characters of class cls starting at i
RunLen(s, i, cls) ==
    LET stops == {j \in i..Len(s) : s[j] \notin cls}
    IN  IF i > Len(s) THEN 0
        ELSE IF stops = {} THEN Len(s) - i + 1
        ELSE Least(stops) - i

\* parseInt of a string of decimal digits
RECURSIVE parseInt(_)
parseInt(ds) ==
    IF ds = <<>> THEN 0
    ELSE 10 * parseInt(SubSeq(ds, 1, Len(ds) - 1)) + DigitVal(ds[Len(ds)])

\* String(n) for a natural number
RECURSIVE numToStr(_)
numToStr(n) ==
    IF n < 10 THEN <<DigitChars[n + 1]>>
    ELSE numToStr(n \div 10) \o <<DigitChars[(n % 10) + 1]>>

NaN == [nan |-> TRUE, num |-> 0, exp |-> 0]

\* the decimal num / 10^exp in lowest terms of exp
RECURSIVE Decimal(_, _)
Decimal(num, exp) ==
    IF exp > 0 /\ num % 10 = 0 THEN Decimal(num \div 10, exp - 1)
    ELSE [nan |-> FALSE, num |-> num, exp |-> exp]

RECURSIVE Pow10(_)
Pow10(e) == IF e = 0 THEN 1 ELSE 10 * Pow10(e - 1)

\* the sign of x - y for two numbers (NaN when one of them is NaN, which
\* Array.prototype.sort takes as 0)
Minus(x, y) ==
    IF x.nan \/ y.nan THEN 0 ELSE x.num * Pow10(y.exp) - y.num * Pow10(x.exp)

\* parseFloat of a string of digits and dots: the longest prefix that is a
\* decimal literal (digits, a dot, digits; at least one digit), NaN without one
parseFloat(t) ==
    LET ni == RunLen(t, 1, Digit)
        dot == ni + 1 <= Len(t) /\ t[ni + 1] = "."
        nf == IF dot THEN RunLen(t, ni + 2, Digit) ELSE 0
    IN  IF ni + nf = 0 THEN NaN
        ELSE Decimal(parseInt(SubSeq(t, 1, ni) \o SubSeq(t, ni + 2, ni + 1 + nf)), nf)

(***************************************************************************)
(* stripAnsi: str.replace(/\x1b\[[0-9;]*m/g, "")                            *)
(***************************************************************************)
\* whether an escape sequence ESC [ (digits and semicolons) m starts at i
AnsiAt(s, i) ==
    LET n == RunLen(s, i + 2, Digit \cup {";"})
    IN  /\ s[i] = ESC
        /\ i + 1 <= Len(s) /\ s[i + 1] = "["
        /\ i + 2 + n <= Len(s) /\ s[i + 2 + n] = "m"

\* s from position i on, without the escape sequences: the text up to the
\* next sequence is kept and the scan resumes behind the sequence
RECURSIVE StripFrom(_, _)
StripFrom(s, i) ==
    LET hits == {j \in i..Len(s) : AnsiAt(s, j)}
    IN  IF hits = {} THEN SliceFrom(s, i)
        ELSE LET j == Least(hits)
                 n == RunLen(s, j + 2, Digit \cup {";"})
             IN  SubSeq(s, i, j - 1) \o StripFrom(s, j + 3 + n)

\* a variant of stripAnsi that removes the escape character and the bracket
\* only, leaving the parameters and the final m
stripAnsi_IntroducerOnly(str) ==
    LET kept == SelectSeq([i \in 1..Len(str) |-> i],
                          LAMBDA i : ~(AnsiAt(str, i) \/ (i > 1 /\ AnsiAt(str, i - 1))))
    IN  [k \in 1..Len(kept) |-> str[kept[k]]]

stripAnsi(str) == StripFrom(str, 1)

(***************************************************************************)
(* parseW2vgrepOutput                                                      *)
(***************************************************************************)
SimilarityLit == <<"S", "i", "m", "i", "l", "a", "r", "i", "t", "y", ":">>

NoMatch == [ok |-> FALSE]

\* line.match(/Similarity:\s*([\d.]+)/): the leftmost occurrence of the
\* label that is followed, after any white space, by a digit or a dot
RECURSIVE SimMatchFrom(_, _)
SimMatchFrom(line, i) ==
    LET j == IndexOf(line, SimilarityLit, i)
    IN  IF j = 0 THEN NoMatch
        ELSE LET a == j + Len(SimilarityLit)
                 w == RunLen(line, a, WhiteSpace)
                 n == RunLen(line, a + w, Digit \cup {"."})
             IN  IF n > 0
                 THEN [ok |-> TRUE, num |-> SubSeq(line, a + w, a + w + n - 1)]
                 ELSE SimMatchFrom(line, j + 1)

SimMatch(line) == SimMatchFrom(line, 1)

\* line.match(/^(\d+):\s*(.*)$/)
LineMatch(line) ==
    LET d == RunLen(line, 1, Digit)
        w == RunLen(line, d + 2, WhiteSpace)
        rest == SliceFrom(line, d + 2 + w)
    IN  IF d = 0 \/ d + 1 > Len(line) \/ line[d + 1] # ":" THEN NoMatch
        ELSE IF \E k \in 1..Len(rest) : rest[k] \in LineTerminator THEN NoMatch
        ELSE [ok |-> TRUE, num |-> SubSeq(line, 1, d), content |-> rest]

\* `${lineNum}: ${content}`
ContextEntry(lineNum, content) == numToStr(lineNum) \o <<":", SP>> \o content

\* Math.ceil(n / 2)
CeilHalf(n) == (n + 1) \div 2

\* Math.floor(n / 2)
FloorHalf(n) == n \div 2

\* the loop over lines[1..], lines being 1-based here: source index i is
\* position i + 1
RECURSIVE ScanLines(_, _, _)
ScanLines(lines, i, acc) ==
    IF i >= Len(lines) THEN acc
    ELSE LET lm == LineMatch(lines[i + 1])
         IN  IF ~lm.ok THEN ScanLines(lines, i + 1, acc)
             ELSE LET lineNum == parseInt(lm.num)
                      mid == (i = CeilHalf(Len(lines)))
                  IN  ScanLines(lines, i + 1,
                          [contextLines |-> Append(acc.contextLines,
                                                   ContextEntry(lineNum, lm.content)),
                           matchLine |-> IF mid THEN lineNum ELSE acc.matchLine,
                           matchWord |-> IF mid THEN lm.content ELSE acc.matchWord])

\* a variant of MidIndex that takes the earlier of two central entries
MidIndex_Lower(contextLines) == (Len(contextLines) - 1) \div 2

\* the 0-based index of the context entry taken as the match
MidIndex(contextLines) == FloorHalf(Len(contextLines))

\* a variant of ParseBlock that keeps the line found at the middle of the
\* block's lines instead of the middle of the accepted context entries
ParseBlock_LoopOnly(block) ==
    LET lines == split(trim(block), <<NL>>)
        sm == SimMatch(lines[1])
    IN  IF ~sm.ok THEN <<>>
        ELSE LET scan == ScanLines(lines, 1,
                             [contextLines |-> <<>>, matchLine |-> 0, matchWord |-> <<>>])
             IN  <<[similarity |-> parseFloat(sm.num),
                    line |-> scan.matchLine,
                    match |-> scan.matchWord,
                    context |-> scan.contextLines]>>

\* a variant of ParseBlock that does not require the header: a block
\* without one gives a record without a similarity
ParseBlock_AnyHeader(block) ==
    LET lines == split(trim(block), <<NL>>)
        sm == SimMatch(lines[1])
        scan == ScanLines(lines, 1,
                    [contextLines |-> <<>>, matchLine |-> 0, matchWord |-> <<>>])
    IN  <<[similarity |-> IF sm.ok THEN parseFloat(sm.num) ELSE NaN,
           line |-> scan.matchLine,
           match |-> scan.matchWord,
           context |-> scan.contextLines]>>

\* the record of one block, as a sequence of zero or one SearchMatch
ParseBlock(block) ==
    LET lines == split(trim(block), <<NL>>)
        sm == SimMatch(lines[1])
    IN  IF ~sm.ok THEN <<>>
        ELSE LET scan == ScanLines(lines, 1,
                             [contextLines |-> <<>>, matchLine |-> 0, matchWord |-> <<>>])
                 ctx == scan.contextLines
                 mm == IF ctx = <<>> THEN NoMatch ELSE LineMatch(ctx[MidIndex(ctx) + 1])
             IN  <<[similarity |-> parseFloat(sm.num),
                    line |-> IF mm.ok THEN parseInt(mm.num) ELSE scan.matchLine,
                    match |-> IF mm.ok THEN mm.content ELSE scan.matchWord,
                    context |-> ctx]>>

\* cleaned.split("--\n").filter(Boolean)
BlockSeparator == <<"-", "-", NL>>

W2vBlocks(cleaned) == SelectSeq(split(cleaned, BlockSeparator), LAMBDA b : b # <<>>)

RECURSIVE ParseBlocks(_)
ParseBlocks(blocks) ==
    IF blocks = <<>> THEN <<>>
    ELSE ParseBlock(Head(blocks)) \o ParseBlocks(Tail(blocks))

parseW2vgrepOutput(output) == ParseBlocks(W2vBlocks(stripAnsi(output)))


(***************************************************************************)
(* relativePath                                                            *)
(***************************************************************************)
SEP == "/"

\* a variant of relativePath that compares the bare prefix, without the
\* separator behind it
relativePath_BarePrefix(filePath, basePath) ==
    IF filePath = basePath THEN <<>>
    ELSE IF startsWith(filePath, basePath)
         THEN SliceFrom(filePath, Len(basePath) + 1)
         ELSE filePath

relativePath(filePath, basePath) ==
    IF filePath = basePath THEN <<>>
    ELSE LET base == IF endsWith(basePath, <<SEP>>) THEN basePath
                     ELSE basePath \o <<SEP>>
         IN  IF startsWith(filePath, base)
             THEN SliceFrom(filePath, Len(base) + 1)
             ELSE filePath

(***************************************************************************)
(* escapeForShell                                                          *)
(***************************************************************************)
BACKSLASH == "\\"
DQUOTE == "\""
DOLLAR == "$"
\* the backtick (the lexer of the model's language rejects it in a string)
BACKTICK == "BACKTICK"

\* str.replace(/c/g, rep) for a one-character pattern: every occurrence of c,
\* left to right, becomes rep; what was inserted is not scanned again
RECURSIVE replaceAll(_, _, _)
replaceAll(s, c, rep) ==
    IF s = <<>> THEN <<>>
    ELSE (IF Head(s) = c THEN rep ELSE <<Head(s)>>) \o replaceAll(Tail(s), c, rep)

\* a variant of escapeForShell that escapes the backslash last
escapeForShell_BackslashLast(str) ==
    replaceAll(
        replaceAll(
            replaceAll(
                replaceAll(str, DQUOTE, <<BACKSLASH, DQUOTE>>),
                DOLLAR, <<BACKSLASH, DOLLAR>>),
            BACKTICK, <<BACKSLASH, BACKTICK>>),
        BACKSLASH, <<BACKSLASH, BACKSLASH>>)

escapeForShell(str) ==
    replaceAll(
        replaceAll(
            replaceAll(
                replaceAll(str, BACKSLASH, <<BACKSLASH, BACKSLASH>>),
                DQUOTE, <<BACKSLASH, DQUOTE>>),
            DOLLAR, <<BACKSLASH, DOLLAR>>),
        BACKTICK, <<BACKSLASH, BACKTICK>>)

(***************************************************************************)
(* parseRipgrepOutput                                                      *)
(***************************************************************************)
\* line.match(/^(.+?)S(\d+)S(.*)$/) for the separator character S (":" for
\* a match line, "-" for a context line): the shortest non-empty file part
\* that is followed by S, digits and S; "." matches no line terminator
NumberedMatch(line, S) ==
    LET fits(k) == LET d == RunLen(line, k + 2, Digit)
                   IN  /\ line[k + 1] = S
                       /\ d > 0
                       /\ k + 2 + d <= Len(line)
                       /\ line[k + 2 + d] = S
        ks == {k \in 1..(Len(line) - 3) : fits(k)}
    IN  IF ks = {} \/ \E i \in 1..Len(line) : line[i] \in LineTerminator THEN NoMatch
        ELSE LET k == Least(ks)
                 d == RunLen(line, k + 2, Digit)
             IN  [ok |-> TRUE,
                  file |-> SubSeq(line, 1, k),
                  num |-> SubSeq(line, k + 2, k + 1 + d),
                  text |-> SliceFrom(line, k + 3 + d)]

\* line.match(/^(.+?):(\d+):(.*)$/)
MatchLineMatch(line) == NumberedMatch(line, ":")

\* line.match(/^(.+?)-(\d+)-(.*)$/)
ContextLineMatch(line) == NumberedMatch(line, "-")

\* the loop over the lines of a block
\* a variant of ScanRgLines that keeps the file and the line number of the
\* first match line of the block
RECURSIVE ScanRgLines_FirstMatch(_, _, _, _)
ScanRgLines_FirstMatch(lines, i, base, acc) ==
    IF i > Len(lines) THEN acc
    ELSE LET line == lines[i]
             mr == MatchLineMatch(line)
             cr == ContextLineMatch(line)
             entry == IF mr.ok THEN <<[num |-> parseInt(mr.num), text |-> mr.text]>>
                      ELSE IF cr.ok THEN <<[num |-> parseInt(cr.num), text |-> cr.text]>>
                      ELSE <<>>
             first == line # <<>> /\ mr.ok /\ acc.matchFile = <<>> /\ acc.matchLine = 0
         IN  ScanRgLines_FirstMatch(lines, i + 1, base,
                 [matchFile |-> IF first THEN relativePath(mr.file, base) ELSE acc.matchFile,
                  matchLine |-> IF first THEN parseInt(mr.num) ELSE acc.matchLine,
                  contextLines |-> acc.contextLines \o (IF line = <<>> THEN <<>> ELSE entry)])

RECURSIVE ScanRgLines(_, _, _, _)
ScanRgLines(lines, i, base, acc) ==
    IF i > Len(lines) THEN acc
    ELSE LET line == lines[i]
             mr == MatchLineMatch(line)
             cr == ContextLineMatch(line)
         IN  IF line = <<>> THEN ScanRgLines(lines, i + 1, base, acc)
             ELSE IF mr.ok
             THEN ScanRgLines(lines, i + 1, base,
                      [matchFile |-> relativePath(mr.file, base),
                       matchLine |-> parseInt(mr.num),
                       contextLines |-> Append(acc.contextLines,
                                           [num |-> parseInt(mr.num), text |-> mr.text])])
             ELSE IF cr.ok
             THEN ScanRgLines(lines, i + 1, base,
                      [acc EXCEPT !.contextLines =
                           Append(@, [num |-> parseInt(cr.num), text |-> cr.text])])
             ELSE ScanRgLines(lines, i + 1, base, acc)

\* Array.prototype.sort with a consistent comparator, given as the table
\* cmp[i, j] of its results on the elements i and j of seq (negative: i goes
\* first): the stable order, in which an element is preceded by the elements
\* that compare lower and by the equal ones that came before it
sort(seq, cmp) ==
    LET n == Len(seq)
        rank(i) == 1 + Cardinality({j \in 1..n :
                          \/ cmp[j, i] < 0
                          \/ cmp[j, i] = 0 /\ j < i})
    IN  [r \in 1..n |-> seq[CHOOSE i \in 1..n : rank(i) = r]]

\* (a, b) => a.num - b.num
ByLineNumber(a, b) == a.num - b.num

\* a variant of SortContext that leaves the entries in input order
SortContext_Unsorted(contextLines) == contextLines

\* a variant of SortContext that keeps the first entry of each line number
SortContext_Dedupe(contextLines) ==
    LET kept == SelectSeq([i \in 1..Len(contextLines) |->
                              [num |-> contextLines[i].num, text |-> contextLines[i].text,
                               first |-> \A j \in 1..(i - 1) :
                                             contextLines[j].num # contextLines[i].num]],
                          LAMBDA e : e.first)
    IN  sort(kept, [i, j \in 1..Len(kept) |-> ByLineNumber(kept[i], kept[j])])

\* contextLines.sort((a, b) => a.num - b.num)
SortContext(contextLines) ==
    sort(contextLines, [i, j \in 1..Len(contextLines) |->
                           ByLineNumber(contextLines[i], contextLines[j])])

\* contextLines.map(c => c.text).join("\n")
JoinContext(contextLines) ==
    join([i \in 1..Len(contextLines) |-> contextLines[i].text], <<NL>>)

\* a variant of EmitsLocation that emits for every block scanned
EmitsLocation_Always(scan) == TRUE

\* if (matchFile && matchLine > 0)
EmitsLocation(scan) == scan.matchFile # <<>> /\ scan.matchLine > 0

\* the location of one block, as a sequence of zero or one MatchLocation
ParseRgBlock(block, base) ==
    IF trim(block) = <<>> THEN <<>>
    ELSE LET scan == ScanRgLines(split(block, <<NL>>), 1, base,
                         [matchFile |-> <<>>, matchLine |-> 0, contextLines |-> <<>>])
         IN  IF EmitsLocation(scan)
             THEN <<[file |-> scan.matchFile,
                     line |-> scan.matchLine,
                     context |-> JoinContext(SortContext(scan.contextLines))]>>
             ELSE <<>>

\* output.trim().split("\n--\n")
RgSeparator == <<NL, "-", "-", NL>>

RgBlocks(output) == split(trim(output), RgSeparator)

RECURSIVE ParseRgBlocks(_, _)
ParseRgBlocks(blocks, base) ==
    IF blocks = <<>> THEN <<>>
    ELSE ParseRgBlock(Head(blocks), base) \o ParseRgBlocks(Tail(blocks), base)

parseRipgrepOutput(output, base) == ParseRgBlocks(RgBlocks(output), base)

(***************************************************************************)
(* State.                                                                  *)
(***************************************************************************)
VARIABLES
    pc,          \* the step the program is at
    stdout,      \* the text the similarity tool has written
    toolBlocks,  \* what the similarity tool wrote, block by block
    lineNo,      \* the line number the similarity tool prints next
    matches,     \* the SearchMatch records parseW2vgrepOutput returned
    filePath,    \* relativePath: its first argument
    basePath,    \* relativePath, parseRipgrepOutput: the base directory
    relative,    \* relativePath: its result
    str,         \* escapeForShell, stripAnsi: the argument
    escaped,     \* escapeForShell: its result
    cleaned,     \* stripAnsi: its result
    rgOut,       \* the text the pattern-search tool has written
    rgBlocks,    \* what the pattern-search tool wrote, block by block
    locations,   \* the MatchLocation records parseRipgrepOutput returned
    request,     \* the tool call being handled
    status,      \* the exit status of the similarity tool
    idx,         \* the match whose locations are looked up next
    lookups,     \* the location lookups run so far
    allMatches,  \* the handler's aggregate of matches
    response     \* the handler's result

toolVars == <<stdout, toolBlocks, lineNo>>
pathVars == <<filePath, basePath, relative>>
escVars == <<str, escaped, cleaned>>
rgVars == <<rgOut, rgBlocks, locations>>

handlerVars == <<request, status, idx, lookups, allMatches, response>>

vars == <<pc, toolVars, matches, pathVars, escVars, rgVars, handlerVars>>

\* the parts of the state an operation checked alone does not use
NoTool == stdout = <<>> /\ toolBlocks = <<>> /\ lineNo = 0
NoMatches == matches = <<>>
NoPath == filePath = <<>> /\ basePath = <<>> /\ relative = <<>>
NoEscape == str = <<>> /\ escaped = <<>> /\ cleaned = <<>>
NoRg == rgOut = <<>> /\ rgBlocks = <<>> /\ locations = <<>>
NoRequest == [name |-> "", recursive |-> FALSE]
NoStatus == -1
NoResponse == [isError |-> FALSE]
NoHandler ==
    /\ request = NoRequest
    /\ status = NoStatus
    /\ idx = 0
    /\ lookups = <<>>
    /\ allMatches = <<>>
    /\ response = NoResponse

(***************************************************************************)
(* Bounds of the model.                                                    *)
(***************************************************************************)
\* lines the similarity tool writes when parseW2vgrepOutput is checked alone
MaxLines == 6

\* the number of the first line the similarity tool prints
FirstLine == 10

\* the longest path and the longest base directory given to relativePath
MaxPathLen == 5
MaxBaseLen == 3

\* the longest string given to escapeForShell
MaxStrLen == 4

\* lines the pattern-search tool writes when parseRipgrepOutput is checked
\* alone
MaxRgLines == 4

\* the longest input of whitespace only
MaxBlankLen == 4

\* the longest string given to stripAnsi
MaxAnsiLen == 5

\* the lines the similarity tool writes at most, in a handled request
MaxToolLines == 6

(***************************************************************************)
(* The similarity tool (w2vgrep), whose standard output execSync returns:  *)
(* blocks of a "Similarity: x" header and numbered lines "n: content",     *)
(* each block ended by a "--" line.  The contents are those of the files   *)
(* searched, so they may end in "--" or hold the word "Similarity:".       *)
(***************************************************************************)
\* similarities the tool prints: the text and the number it denotes
SimPool ==
    { [text |-> <<"0", ".", "5", "0">>, val |-> [nan |-> FALSE, num |-> 5, exp |-> 1]],
      [text |-> <<"0", ".", "9">>, val |-> [nan |-> FALSE, num |-> 9, exp |-> 1]] }

\* contents of the lines of the files searched
PlainContent == <<"a">>
DashContent == <<"b", "-", "-">>
LabelContent == SimilarityLit \o <<SP, "0", ".", "9">>

ContentPool == {PlainContent, DashContent, LabelContent}

\* a line that is neither a header nor a numbered line
OtherLine == <<"z">>

\* the number of lines written so far
LinesOf(text) == Cardinality({i \in 1..Len(text) : text[i] = NL})

\* whether the tool is at the start of a block
AtBlockStart == IF toolBlocks = <<>> THEN TRUE ELSE toolBlocks[Len(toolBlocks)].closed

NewBlock(valid, val, head) ==
    Append(toolBlocks, [valid |-> valid, sim |-> val, head |-> head, first |-> lineNo,
                        numbered |-> 0, others |-> 0, closed |-> FALSE])

\* the tool prints the header of a block
WriteHeader(limit) ==
    /\ pc = "tool"
    /\ LinesOf(stdout) < limit
    /\ AtBlockStart
    /\ \E s \in SimPool :
          /\ stdout' = stdout \o SimilarityLit \o <<SP>> \o s.text \o <<NL>>
          /\ toolBlocks' = NewBlock(TRUE, s.val, SimilarityLit \o <<SP>> \o s.text)
    /\ UNCHANGED <<pc, lineNo, matches, pathVars, escVars, rgVars, handlerVars>>

\* the tool prints a numbered line of the file
WriteContext(limit, pool) ==
    /\ pc = "tool"
    /\ LinesOf(stdout) < limit
    /\ \E c \in pool :
          LET line == numToStr(lineNo) \o <<":", SP>> \o c
              blocks == IF AtBlockStart THEN NewBlock(FALSE, NaN, line) ELSE toolBlocks
          IN  /\ stdout' = stdout \o line \o <<NL>>
              /\ toolBlocks' = [blocks EXCEPT ![Len(blocks)].numbered = @ + 1]
    /\ lineNo' = lineNo + 1
    /\ UNCHANGED <<pc, matches, pathVars, escVars, rgVars, handlerVars>>

\* the tool prints a line that is neither (a banner, a warning)
WriteOther(limit) ==
    /\ pc = "tool"
    /\ LinesOf(stdout) < limit
    /\ stdout' = stdout \o OtherLine \o <<NL>>
    /\ toolBlocks' = IF AtBlockStart THEN NewBlock(FALSE, NaN, OtherLine)
                     ELSE [toolBlocks EXCEPT ![Len(toolBlocks)].others = @ + 1]
    /\ UNCHANGED <<pc, lineNo, matches, pathVars, escVars, rgVars, handlerVars>>

\* the tool ends a block
WriteSeparator(limit) ==
    /\ pc = "tool"
    /\ LinesOf(stdout) < limit
    /\ ~AtBlockStart
    /\ stdout' = stdout \o BlockSeparator
    /\ toolBlocks' = [toolBlocks EXCEPT ![Len(toolBlocks)].closed = TRUE]
    /\ UNCHANGED <<pc, lineNo, matches, pathVars, escVars, rgVars, handlerVars>>

(***************************************************************************)
(* parseW2vgrepOutput checked alone: the tool writes, the parser is        *)
(* applied to what it wrote.                                               *)
(***************************************************************************)
InitW2v ==
    /\ pc = "tool"
    /\ stdout = <<>>
    /\ toolBlocks = <<>>
    /\ lineNo = FirstLine
    /\ NoMatches /\ NoPath /\ NoEscape /\ NoRg /\ NoHandler

W2vHeader == WriteHeader(MaxLines)
W2vContext == WriteContext(MaxLines, ContentPool)
W2vOther == WriteOther(MaxLines)
W2vSeparator == WriteSeparator(MaxLines)

W2vParse ==
    /\ pc = "tool"
    /\ pc' = "parsed"
    /\ matches' = parseW2vgrepOutput(stdout)
    /\ UNCHANGED <<toolVars, pathVars, escVars, rgVars, handlerVars>>

NextW2v == W2vHeader \/ W2vContext \/ W2vOther \/ W2vSeparator \/ W2vParse

SpecW2v == InitW2v /\ [][NextW2v]_vars


(***************************************************************************)
(* The pattern-search tool (rg -n -C), whose standard output execSync      *)
(* returns: match lines "file:n:content", context lines "file-n-content",  *)
(* blocks separated by a "--" line.  The k-th line written has the k-th    *)
(* letter as its content, so that the order of the contents is visible.    *)
(***************************************************************************)
SearchDir == <<"/", "p">>

\* a file below the directory searched
SearchFile == SearchDir \o <<"/", "f">>

\* the file and line number a match line starts with: the file with the
\* line numbers 0, 2 and 10, and the directory searched itself
RgMatchHeads ==
    {[file |-> SearchFile, n |-> n] : n \in {0, 2, 10}} \cup {[file |-> SearchDir, n |-> 2]}

\* a content that holds ":", digits and ":" (a time of day)
TimeContent == <<"1", ":", "0", "2", ":">>

\* the line number and the start of the content of a context line
RgContextHeads ==
    {[n |-> n, c |-> <<>>] : n \in {2, 10}} \cup {[n |-> 2, c |-> TimeContent]}

Letters == <<"a", "b", "c", "d", "e", "f", "g", "h">>

\* the lines written so far, over all blocks
RgLineCount == LinesOf(rgOut) - Cardinality({i \in 1..Len(rgBlocks) : rgBlocks[i].closed})

NextContent == <<Letters[(RgLineCount % Len(Letters)) + 1]>>

RgLine(line) ==
    /\ rgOut' = rgOut \o line \o <<NL>>
    /\ rgBlocks' = IF rgBlocks = <<>> \/ rgBlocks[Len(rgBlocks)].closed
                   THEN Append(rgBlocks, [lines |-> <<line>>, closed |-> FALSE])
                   ELSE [rgBlocks EXCEPT ![Len(rgBlocks)].lines = Append(@, line)]

RgWriteMatch(limit) ==
    /\ pc = "rg"
    /\ LinesOf(rgOut) < limit
    /\ \E h \in RgMatchHeads :
          RgLine(h.file \o <<":">> \o numToStr(h.n) \o <<":">> \o NextContent)
    /\ UNCHANGED <<pc, toolVars, matches, pathVars, escVars, locations, handlerVars>>

RgWriteContext(limit) ==
    /\ pc = "rg"
    /\ LinesOf(rgOut) < limit
    /\ \E h \in RgContextHeads :
          RgLine(SearchFile \o <<"-">> \o numToStr(h.n) \o <<"-">> \o h.c \o NextContent)
    /\ UNCHANGED <<pc, toolVars, matches, pathVars, escVars, locations, handlerVars>>

RgWriteOther(limit) ==
    /\ pc = "rg"
    /\ LinesOf(rgOut) < limit
    /\ RgLine(OtherLine)
    /\ UNCHANGED <<pc, toolVars, matches, pathVars, escVars, locations, handlerVars>>

RgWriteSeparator(limit) ==
    /\ pc = "rg"
    /\ LinesOf(rgOut) < limit
    /\ rgBlocks # <<>>
    /\ ~rgBlocks[Len(rgBlocks)].closed
    /\ rgOut' = rgOut \o <<"-", "-", NL>>
    /\ rgBlocks' = [rgBlocks EXCEPT ![Len(rgBlocks)].closed = TRUE]
    /\ UNCHANGED <<pc, toolVars, matches, pathVars, escVars, locations, handlerVars>>

(***************************************************************************)
(* parseRipgrepOutput checked alone: the tool writes, the parser is        *)
(* applied to what it wrote.                                               *)
(***************************************************************************)
InitRg ==
    /\ pc = "rg"
    /\ rgOut = <<>>
    /\ rgBlocks = <<>>
    /\ locations = <<>>
    /\ filePath = <<>>
    /\ basePath = SearchDir
    /\ relative = <<>>
    /\ NoTool /\ NoMatches /\ NoEscape /\ NoHandler

RgMatchLine == RgWriteMatch(MaxRgLines)
RgContextLine == RgWriteContext(MaxRgLines)
RgOtherLine == RgWriteOther(MaxRgLines)
RgSeparatorLine == RgWriteSeparator(MaxRgLines)

RgParse ==
    /\ pc = "rg"
    /\ pc' = "parsed"
    /\ locations' = parseRipgrepOutput(rgOut, basePath)
    /\ UNCHANGED <<rgOut, rgBlocks, toolVars, matches, pathVars, escVars, handlerVars>>

NextRg == RgMatchLine \/ RgContextLine \/ RgOtherLine \/ RgSeparatorLine \/ RgParse

SpecRg == InitRg /\ [][NextRg]_vars

(***************************************************************************)
(* relativePath checked alone, over every path and base of a small         *)
(* alphabet.                                                               *)
(***************************************************************************)
\* the strings over an alphabet of at most n characters
StringsUpTo(alphabet, n) == UNION {[1..k -> alphabet] : k \in 0..n}

PathAlphabet == {SEP, "a", "b"}

InitPath ==
    /\ pc = "input"
    /\ filePath \in StringsUpTo(PathAlphabet, MaxPathLen)
    /\ basePath \in StringsUpTo(PathAlphabet, MaxBaseLen)
    /\ relative = <<>>
    /\ NoTool /\ NoMatches /\ NoEscape /\ NoRg /\ NoHandler

Relativize ==
    /\ pc = "input"
    /\ pc' = "done"
    /\ relative' = relativePath(filePath, basePath)
    /\ UNCHANGED <<filePath, basePath, toolVars, matches, escVars, rgVars, handlerVars>>

NextPath == Relativize

SpecPath == InitPath /\ [][NextPath]_vars

(***************************************************************************)
(* escapeForShell checked alone, over every string of the four special     *)
(* characters and an ordinary one.                                         *)
(***************************************************************************)
Special == {BACKSLASH, DQUOTE, DOLLAR, BACKTICK}

ShellAlphabet == Special \cup {"a"}

InitEscape ==
    /\ pc = "input"
    /\ str \in StringsUpTo(ShellAlphabet, MaxStrLen)
    /\ escaped = <<>>
    /\ cleaned = <<>>
    /\ NoTool /\ NoMatches /\ NoPath /\ NoRg /\ NoHandler

Escape ==
    /\ pc = "input"
    /\ pc' = "done"
    /\ escaped' = escapeForShell(str)
    /\ UNCHANGED <<str, cleaned, toolVars, matches, pathVars, rgVars, handlerVars>>

NextEscape == Escape

SpecEscape == InitEscape /\ [][NextEscape]_vars

(***************************************************************************)
(* stripAnsi checked alone, over every string of the characters of an      *)
(* escape sequence and a letter.                                           *)
(***************************************************************************)
AnsiAlphabet == {ESC, "[", "1", ";", "m", "a"}

InitAnsi ==
    /\ pc = "input"
    /\ str \in StringsUpTo(AnsiAlphabet, MaxAnsiLen)
    /\ escaped = <<>>
    /\ cleaned = <<>>
    /\ NoTool /\ NoMatches /\ NoPath /\ NoRg /\ NoHandler

Strip ==
    /\ pc = "input"
    /\ pc' = "done"
    /\ cleaned' = stripAnsi(str)
    /\ UNCHANGED <<str, escaped, toolVars, matches, pathVars, rgVars, handlerVars>>

NextAnsi == Strip

SpecAnsi == InitAnsi /\ [][NextAnsi]_vars

(***************************************************************************)
(* Both parsers applied to an input of whitespace only.                    *)
(***************************************************************************)
InitBlank ==
    /\ pc = "input"
    /\ stdout \in StringsUpTo(WhiteSpace, MaxBlankLen)
    /\ rgOut = stdout
    /\ toolBlocks = <<>>
    /\ lineNo = 0
    /\ rgBlocks = <<>>
    /\ locations = <<>>
    /\ filePath = <<>>
    /\ basePath = SearchDir
    /\ relative = <<>>
    /\ NoMatches /\ NoEscape /\ NoHandler

BlankW2v ==
    /\ pc = "input"
    /\ pc' = "w2v"
    /\ matches' = parseW2vgrepOutput(stdout)
    /\ UNCHANGED <<toolVars, pathVars, escVars, rgVars, handlerVars>>

BlankRg ==
    /\ pc = "w2v"
    /\ pc' = "done"
    /\ locations' = parseRipgrepOutput(rgOut, basePath)
    /\ UNCHANGED <<rgOut, rgBlocks, toolVars, matches, pathVars, escVars, handlerVars>>

NextBlank == BlankW2v \/ BlankRg

SpecBlank == InitBlank /\ [][NextBlank]_vars

(***************************************************************************)
(* The semantic_search request handler of src/src/index.ts.  Its steps are *)
(* separated where it waits for a subprocess: the similarity tool writes   *)
(* its output and exits, then (in a recursive call) one location lookup    *)
(* is run for each match in turn; the step that ends the work sorts the    *)
(* aggregate and builds the response.                                      *)
(***************************************************************************)
ToolNames == {"semantic_search", "other_tool"}

Query == <<"q">>

\* exit statuses of the similarity tool or pipeline: success, no match,
\* xargs' "a command failed", another failure
ExitStatuses == {0, 1, 123, 2}

\* what a location lookup may give: the exit status of rg and its output
LookupOutcomes ==
    { [status |-> 0, out |-> SearchFile \o <<":", "1", "0", ":">> \o PlainContent \o <<NL>>],
      [status |-> 1, out |-> <<>>],
      [status |-> 2, out |-> <<>>] }

\* (a, b) => b.similarity - a.similarity
BySimilarityDesc(a, b) == Minus(b.similarity, a.similarity)

\* a variant of SortMatches that leaves the aggregate in parse order
SortMatches_Unsorted(ms) == ms

\* allMatches.sort((a, b) => b.similarity - a.similarity)
SortMatches(ms) == sort(ms, [i, j \in 1..Len(ms) |-> BySimilarityDesc(ms[i], ms[j])])

\* the response of a successful call (the text is its JSON form)
OkResponse(ms) ==
    [isError |-> FALSE, query |-> Query, total |-> Len(ms), matches |-> ms]

ErrorResponse(text) == [isError |-> TRUE, text |-> text]

\* the end of the try block: the aggregate is sorted and returned
Finish(ms) ==
    /\ allMatches' = SortMatches(ms)
    /\ response' = OkResponse(allMatches')
    /\ pc' = "done"

\* a variant of ToolResult that takes every failing exit as "no match"
ToolResult_AnyFailureIsNoMatch(recursive, st) ==
    [thrown |-> FALSE, null |-> st # 0]

\* runW2vgrep / runW2vgrepRecursive: the output, null for a no-match exit,
\* or an exception
ToolResult(recursive, st) ==
    IF st = 0 THEN [thrown |-> FALSE, null |-> FALSE]
    ELSE IF st = 1 \/ (recursive /\ st = 123) THEN [thrown |-> FALSE, null |-> TRUE]
    ELSE [thrown |-> TRUE, null |-> FALSE]

\* a variant of findMatchLocations that rethrows a failure other than rg's
\* "no match" exit, as runW2vgrep does
findMatchLocations_Rethrow(outcome, searchPath) ==
    IF outcome.status = 0
    THEN [thrown |-> FALSE, value |-> parseRipgrepOutput(outcome.out, searchPath)]
    ELSE [thrown |-> outcome.status # 1, value |-> <<>>]

\* findMatchLocations: the locations parsed from the output of rg, none when
\* rg fails; no exception leaves it
findMatchLocations(outcome, searchPath) ==
    IF outcome.status = 0
    THEN [thrown |-> FALSE, value |-> parseRipgrepOutput(outcome.out, searchPath)]
    ELSE [thrown |-> FALSE, value |-> <<>>]

\* match.locations = ...
WithLocations(match, locs) ==
    [f \in DOMAIN match \cup {"locations"} |-> IF f = "locations" THEN locs ELSE match[f]]

\* a variant of LookupText that searches for the text of the first match
LookupText_First(ms, i) == escapeForShell(ms[1].match)

\* the text the lookup of match i searches for: escapeForShell(match.match)
LookupText(ms, i) == escapeForShell(ms[i].match)

\* a variant of LookupStep with a list of locations shared by the matches:
\* a lookup also adds what it found to the matches looked up before it
LookupStep_Shared(ms, i, locs) ==
    [k \in 1..Len(ms) |->
        IF k = i THEN WithLocations(ms[k], locs)
        ELSE IF "locations" \in DOMAIN ms[k]
             THEN WithLocations(ms[k], ms[k].locations \o locs)
             ELSE ms[k]]

\* the body of the loop for match i, when the lookup returns locs
LookupStep(ms, i, locs) == [ms EXCEPT ![i] = WithLocations(ms[i], locs)]

Init ==
    /\ pc = "idle"
    /\ stdout = <<>>
    /\ toolBlocks = <<>>
    /\ lineNo = FirstLine
    /\ NoMatches /\ NoPath /\ NoEscape /\ NoRg /\ NoHandler

\* a tools/call request arrives; the similarity tool is started unless the
\* request names another tool
Request ==
    /\ pc = "idle"
    /\ \E name \in ToolNames, recursive \in BOOLEAN :
          /\ request' = [name |-> name, recursive |-> recursive]
          /\ IF name # "semantic_search"
             THEN /\ response' = ErrorResponse("Unknown tool")
                  /\ pc' = "done"
             ELSE /\ response' = response
                  /\ pc' = "tool"
    /\ UNCHANGED <<toolVars, matches, pathVars, escVars, rgVars, status, idx, lookups,
                   allMatches>>

ToolHeader == WriteHeader(MaxToolLines)
ToolContext == WriteContext(MaxToolLines, {PlainContent, DashContent})
ToolSeparator == WriteSeparator(MaxToolLines)

\* the similarity tool exits and execSync returns or throws
ToolExit ==
    /\ pc = "tool"
    /\ \E st \in ExitStatuses :
          LET res == ToolResult(request.recursive, st)
              parsed == IF ~res.null /\ stdout # <<>> THEN parseW2vgrepOutput(stdout)
                        ELSE <<>>
          IN  /\ status' = st
              /\ IF res.thrown
                 THEN /\ response' = ErrorResponse("Error")
                      /\ pc' = "done"
                      /\ UNCHANGED <<matches, allMatches, idx>>
                 ELSE /\ matches' = parsed
                      /\ IF request.recursive /\ parsed # <<>>
                         THEN /\ pc' = "lookup"
                              /\ idx' = 1
                              /\ UNCHANGED <<allMatches, response>>
                         ELSE /\ Finish(parsed)
                              /\ UNCHANGED idx
    /\ UNCHANGED <<toolVars, pathVars, escVars, rgVars, request, lookups>>

\* the location lookup of the next match; an exception leaving it would end
\* the request in the handler's catch
Lookup ==
    /\ pc = "lookup"
    /\ \E outcome \in LookupOutcomes :
          LET found == findMatchLocations(outcome, SearchDir)
          IN  /\ lookups' = Append(lookups, [match |-> idx,
                                             text |-> LookupText(matches, idx),
                                             status |-> outcome.status,
                                             locations |-> found.value])
              /\ IF found.thrown
                 THEN /\ response' = ErrorResponse("Error")
                      /\ pc' = "done"
                      /\ UNCHANGED <<matches, allMatches, idx>>
                 ELSE /\ matches' = LookupStep(matches, idx, found.value)
                      /\ IF idx = Len(matches)
                         THEN /\ Finish(matches')
                              /\ UNCHANGED idx
                         ELSE /\ idx' = idx + 1
                              /\ UNCHANGED <<pc, allMatches, response>>
    /\ UNCHANGED <<toolVars, pathVars, escVars, rgVars, request, status>>

Next == Request \/ ToolHeader \/ ToolContext \/ ToolSeparator \/ ToolExit \/ Lookup

Spec == Init /\ [][Next]_vars

(***************************************************************************)
(* Properties of parseW2vgrepOutput.                                       *)
(***************************************************************************)
\* the line number a context entry "<n>: <content>" starts with
EntryLine(entry) == parseInt(SubSeq(entry, 1, RunLen(entry, 1, Digit)))

\* the line numbers of a record's context entries
EntryLines(m) == [i \in 1..Len(m.context) |-> EntryLine(m.context[i])]

\* C1: when every block the similarity tool wrote starts with a valid
\* Similarity header, the parser returns one record per block, in block
\* order, record i carrying the similarity of block i's header.
C1_OneRecordPerBlock ==
    (pc = "parsed" /\ \A i \in 1..Len(toolBlocks) : toolBlocks[i].valid)
        => /\ Len(matches) = Len(toolBlocks)
           /\ \A i \in 1..Len(matches) : matches[i].similarity = toolBlocks[i].sim

\* C2 as stated: the match is the entry at 0-based index 0,0,1,1,2 for
\* counts 1..5, the earlier of the two central entries of an even count, so
\* that context lines 10,11,12,13 give line 11.
C2_EarlierCentralLine ==
    pc = "parsed" =>
        \A i \in 1..Len(matches) :
            LET m == matches[i]
                n == Len(m.context)
            IN  n > 0 =>
                   /\ m.line = EntryLines(m)[((n - 1) \div 2) + 1]
                   /\ EntryLines(m) = <<10, 11, 12, 13>> => m.line = 11

\* C2 amended: the match is the entry at 0-based index floor(count / 2), that
\* is 0,1,1,2,2 for counts 1..5, the later of the two central entries of an
\* even count, so that context lines 10,11,12,13 give line 12.
C2_LaterCentralLine ==
    pc = "parsed" =>
        \A i \in 1..Len(matches) :
            LET m == matches[i]
                n == Len(m.context)
            IN  /\ n \in 1..5 => m.line = EntryLines(m)[<<1, 2, 2, 3, 3>>[n]]
                /\ (n > 0 /\ n % 2 = 0) => m.line = EntryLines(m)[(n \div 2) + 1]
                /\ EntryLines(m) = <<10, 11, 12, 13>> => m.line = 12

\* a record with the four context lines 10,11,12,13 was returned
C2_Witness ==
    /\ pc = "parsed"
    /\ \E i \in 1..Len(matches) : EntryLines(matches[i]) = <<10, 11, 12, 13>>

\* C3: in every record with at least one context entry, the entry at 0-based
\* index floor(count / 2) of the context, count being the number of entries
\* accepted, is "<line>: <match>".
C3_LineAndMatchAreMiddleEntry ==
    pc = "parsed" =>
        \A i \in 1..Len(matches) :
            LET m == matches[i]
                n == Len(m.context)
            IN  n > 0 => m.context[(n \div 2) + 1] = numToStr(m.line) \o <<":", SP>> \o m.match

\* the tool wrote one block of a header, the lines 10, 11, 12 and then a line
\* that is not numbered, and the record returned for it has line 11
C3_Witness ==
    /\ pc = "parsed"
    /\ Len(toolBlocks) = 1
    /\ toolBlocks[1].others = 1
    /\ Len(matches) = 1
    /\ endsWith(stdout, OtherLine \o <<NL>>)
    /\ EntryLines(matches[1]) = <<10, 11, 12>>
    /\ matches[1].line = 11


\* C17: blocks end only at a line that is exactly "--": when every block
\* the tool wrote starts with a header, the record of a block holds one
\* context entry for each numbered line of the block, also for a line whose
\* content ends in "--" and for the lines after it.
C17_SplitOnlyAtSeparatorLine ==
    (pc = "parsed" /\ \A i \in 1..Len(toolBlocks) : toolBlocks[i].valid)
        => /\ Len(matches) = Len(toolBlocks)
           /\ \A k \in 1..Len(matches) :
                 Len(matches[k].context) = toolBlocks[k].numbered

\* the blocks the tool wrote whose first line holds a "Similarity: x" header
HeadedBlocks == SelectSeq(toolBlocks, LAMBDA b : SimMatch(b.head).ok)

\* C12: a block whose first line holds no "Similarity: x" header gives no
\* record, and every block with one gives its record: the records are, in
\* order, those of the blocks with a header.
C12_HeaderlessBlockDropped ==
    pc = "parsed" =>
        /\ Len(matches) = Len(HeadedBlocks)
        /\ \A k \in 1..Len(matches) :
              matches[k].similarity = parseFloat(SimMatch(HeadedBlocks[k].head).num)

\* C13: for the empty input and for an input of whitespace and newlines
\* only, parseW2vgrepOutput and parseRipgrepOutput both return the empty
\* sequence.
C13_BlankInputGivesNothing ==
    /\ pc \in {"w2v", "done"} =>
          /\ \A i \in 1..Len(stdout) : stdout[i] \in WhiteSpace
          /\ matches = <<>>
    /\ pc = "done" =>
          /\ \A i \in 1..Len(rgOut) : rgOut[i] \in WhiteSpace
          /\ locations = <<>>

\* both parsers were applied to a space, a newline and a space
C13_Witness ==
    /\ pc = "done"
    /\ stdout = <<SP, NL, SP>>
    /\ rgOut = <<SP, NL, SP>>
    /\ matches = <<>>
    /\ locations = <<>>

(***************************************************************************)
(* Properties of stripAnsi.                                                *)
(***************************************************************************)
\* whether positions i..j of s are an escape sequence: ESC, a bracket, digits
\* and semicolons, m
IsAnsiSpan(s, i, j) ==
    /\ i + 2 <= j
    /\ s[i] = ESC
    /\ s[i + 1] = "["
    /\ s[j] = "m"
    /\ \A k \in (i + 2)..(j - 1) : s[k] \in Digit \cup {";"}

\* the positions of s that lie in an escape sequence
InAnsiSpan(s) ==
    {p \in 1..Len(s) : \E i \in 1..p, j \in p..Len(s) : IsAnsiSpan(s, i, j)}

\* the characters of s at the positions outside P, in order
RECURSIVE Without(_, _, _)
Without(s, P, i) ==
    IF i > Len(s) THEN <<>>
    ELSE (IF i \in P THEN <<>> ELSE <<s[i]>>) \o Without(s, P, i + 1)

\* C11: the result of stripAnsi is its argument without the characters of
\* the sequences ESC [ digits/semicolons m, every other character kept in
\* order: an argument without such a sequence is returned identical, one
\* made of such sequences only gives the empty string.
C11_RemovesExactlyAnsiSequences ==
    pc = "done" =>
        /\ cleaned = Without(str, InAnsiSpan(str), 1)
        /\ InAnsiSpan(str) = {} => cleaned = str
        /\ InAnsiSpan(str) = 1..Len(str) => cleaned = <<>>

\* a letter, a sequence with a parameter and a letter: the letters are kept
C11_Witness ==
    /\ pc = "done"
    /\ str = <<"a", ESC, "[", "1", "m">>
    /\ cleaned = <<"a">>

(***************************************************************************)
\* the arrangements of the elements of S in a sequence
RECURSIVE Arrangements(_)
Arrangements(S) ==
    IF S = {} THEN {<<>>}
    ELSE UNION {{<<x>> \o q : q \in Arrangements(S \ {x})} : x \in S}

\* the permutations of 1..n, for every n that occurs
PermTable ==
    [n \in 0..(IF MaxRgLines > MaxToolLines THEN MaxRgLines ELSE MaxToolLines)
        |-> Arrangements(1..n)]

Perms(n) == PermTable[n]

\* the blocks the similarity tool wrote that start with a header
ValidBlocks == SelectSeq(toolBlocks, LAMBDA b : b.valid)

\* whether record m is the record of block b: its similarity is the one of
\* the header, its line one of the block's numbered lines (0 without any)
IsRecordOf(m, b) ==
    /\ m.similarity = b.sim
    /\ IF b.numbered = 0 THEN m.line = 0
       ELSE m.line \in b.first..(b.first + b.numbered - 1)

\* C4: in the response of a successful call the matches are in
\* non-increasing order of similarity, and matches of equal similarity are in
\* the order of their blocks in the similarity tool's output.
C4_SortedBySimilarityStable ==
    (pc = "done" /\ ~response.isError /\ status = 0) =>
        LET ms == response.matches
            n == Len(ms)
        IN  /\ n = Len(ValidBlocks)
            /\ response.total = n
            /\ \E p \in Perms(n) :
                  /\ \A i \in 1..n : IsRecordOf(ms[i], ValidBlocks[p[i]])
                  /\ \A i, j \in 1..n :
                        i < j => \/ Minus(ms[i].similarity, ms[j].similarity) > 0
                                 \/ /\ Minus(ms[i].similarity, ms[j].similarity) = 0
                                    /\ p[i] < p[j]

\* the tool wrote blocks of similarity 0.5, 0.9 and 0.5, the last one with
\* the numbered line 10; the response has them in the order 0.9, 0.5 (no
\* line), 0.5 (line 10)
C4_Witness ==
    /\ pc = "done"
    /\ ~response.isError
    /\ status = 0
    /\ Len(toolBlocks) = 3
    /\ response.total = 3
    /\ [i \in 1..3 |-> toolBlocks[i].sim.num] = <<5, 9, 5>>
    /\ [i \in 1..3 |-> toolBlocks[i].numbered] = <<0, 0, 1>>
    /\ [i \in 1..3 |-> response.matches[i].similarity.num] = <<9, 5, 5>>
    /\ [i \in 1..3 |-> response.matches[i].line] = <<0, 0, 10>>

\* the records the parser gave for the tool's output, before any lookup
ParsedRecords == parseW2vgrepOutput(stdout)

\* C14: in a recursive call a failed location lookup is not propagated:
\* the call succeeds, one lookup is run for every match in turn whatever the
\* earlier ones gave, and the match of a failed lookup is in the response
\* with empty locations and its similarity, line, match and context.
C14_LookupFailureSwallowed ==
    /\ pc = "lookup" => (~response.isError /\ Len(lookups) = idx - 1)
    /\ (pc = "done" /\ request.recursive /\ status = 0) =>
          LET parsed == ParsedRecords
          IN  /\ ~response.isError
              /\ response.total = Len(parsed)
              /\ Len(lookups) = Len(parsed)
              /\ \A i \in 1..Len(lookups) :
                    /\ lookups[i].match = i
                    /\ lookups[i].status # 0 =>
                          /\ matches[i] = WithLocations(parsed[i], <<>>)
                          /\ \E k \in 1..response.total : response.matches[k] = matches[i]

\* the lookup of the first of two matches failed with an exit status other
\* than "no match", the second found a location, and the response holds
\* both matches
C14_Witness ==
    /\ pc = "done"
    /\ request.recursive
    /\ ~response.isError
    /\ Len(lookups) = 2
    /\ lookups[1].status = 2
    /\ lookups[2].status = 0
    /\ lookups[2].locations # <<>>
    /\ response.total = 2
    /\ \E k \in 1..2 : response.matches[k].locations = <<>>

HasLocations(m) == "locations" \in DOMAIN m

\* in every state: a parsed record has no locations; during the lookups the
\* records before the current one have theirs and the others have none; the
\* response of a recursive call is built when every record has the result of
\* the lookup run with its own match text; no record of the response of a
\* non-recursive call has locations
C15_LocationsState ==
    pc \in {"lookup", "done"} =>
        LET parsed == ParsedRecords
        IN  /\ \A i \in 1..Len(parsed) : ~HasLocations(parsed[i])
            /\ pc = "lookup" =>
                  /\ Len(matches) = Len(parsed)
                  /\ \A i \in 1..Len(matches) : HasLocations(matches[i]) <=> i < idx
            /\ (pc = "done" /\ ~response.isError /\ request.recursive) =>
                  /\ Len(lookups) = Len(matches)
                  /\ \A i \in 1..Len(matches) :
                        /\ lookups[i].text = escapeForShell(parsed[i].match)
                        /\ matches[i] = WithLocations(parsed[i], lookups[i].locations)
                  /\ \A k \in 1..response.total : HasLocations(response.matches[k])
            /\ (pc = "done" /\ ~response.isError /\ ~request.recursive) =>
                  \A k \in 1..response.total : ~HasLocations(response.matches[k])

\* in every step: a record that has locations is not changed again, and a
\* record that gets them keeps its similarity, line, match and context
C15_LocationsStep ==
    \A i \in 1..Len(matches) :
        /\ HasLocations(matches[i]) => (Len(matches') >= i /\ matches'[i] = matches[i])
        /\ (~HasLocations(matches[i]) /\ Len(matches') >= i /\ matches'[i] # matches[i]) =>
              /\ HasLocations(matches'[i])
              /\ matches'[i] = WithLocations(matches[i], matches'[i].locations)

\* C15: a parsed record has no locations field; in a recursive call every
\* record gets locations exactly once, the result of the lookup run with its
\* own match text, before the response is built, its other fields unchanged;
\* in a non-recursive call no record of the response has locations.
C15_LocationsAssignedOnce == []C15_LocationsState /\ [][C15_LocationsStep]_vars

\* a recursive call ended with two matches of different text, each with the
\* locations of its own lookup
C15_Witness ==
    /\ pc = "done"
    /\ request.recursive
    /\ ~response.isError
    /\ Len(lookups) = 2
    /\ lookups[1].text # lookups[2].text
    /\ lookups[1].locations # lookups[2].locations
    /\ \A i \in 1..2 : matches[i].locations = lookups[i].locations

\* what the lookup run for match i returned
ResultFor(i) == (CHOOSE e \in {lookups[k] : k \in 1..Len(lookups)} : e.match = i).locations

\* the records after the loop body has run for the matches order[k..], each
\* lookup returning what it returned for its match
RECURSIVE LookupsInOrder(_, _, _)
LookupsInOrder(ms, order, k) ==
    IF k > Len(order) THEN ms
    ELSE LookupsInOrder(LookupStep(ms, order[k], ResultFor(order[k])), order, k + 1)

\* C16: the aggregate is sorted and the response built only when the lookups
\* of all matches are done; a lookup reads only the text of its own match and
\* writes only the locations of its own match, so that running the lookups
\* in any order gives the sorted aggregate of the response.
C16_LookupOrderIrrelevant ==
    /\ pc = "lookup" =>
          /\ allMatches = <<>> /\ response = NoResponse
          /\ \A i, j \in 1..Len(matches) :
                i # j =>
                   \A o \in LookupOutcomes :
                       LET after == LookupStep(matches, i, findMatchLocations(o, SearchDir).value)
                       IN  /\ after[j] = matches[j]
                           /\ LookupText(after, j) = LookupText(matches, j)
    /\ (pc = "done" /\ request.recursive /\ status # 0) => lookups = <<>>
    /\ (pc = "done" /\ request.recursive /\ status = 0) =>
          LET parsed == ParsedRecords
          IN  /\ Len(lookups) = Len(parsed)
              /\ \A i \in 1..Len(parsed) : \E k \in 1..Len(lookups) : lookups[k].match = i
              /\ \A order \in Perms(Len(parsed)) :
                    response.matches = SortMatches(LookupsInOrder(parsed, order, 1))

\* a recursive call ended with matches of similarity 0.5 and 0.9, the lookup
\* of the first run first and failed, the lookup of the second found a
\* location, and the response has the second match first
C16_Witness ==
    /\ pc = "done"
    /\ request.recursive
    /\ ~response.isError
    /\ Len(lookups) = 2
    /\ lookups[1].locations = <<>>
    /\ lookups[2].locations # <<>>
    /\ matches[1].similarity.num = 5
    /\ matches[2].similarity.num = 9
    /\ response.matches = <<matches[2], matches[1]>>

\* the exit statuses that mean "no match": 1 of the similarity tool, 1 or 123
\* of the recursive pipeline
IsNoMatchExit(recursive, st) == st = 1 \/ (recursive /\ st = 123)

\* C18: a request for another tool gives an error response and runs no
\* subprocess; a no-match exit of the similarity tool gives a normal response
\* with total 0, no matches and no lookup; any other failing exit gives an
\* error response without matches; nothing else gives an error response.
C18_ErrorOnlyOnToolFailure ==
    pc = "done" =>
        /\ request.name # "semantic_search" =>
              /\ response.isError
              /\ status = NoStatus /\ stdout = <<>> /\ lookups = <<>>
        /\ (request.name = "semantic_search" /\ IsNoMatchExit(request.recursive, status)) =>
              /\ ~response.isError
              /\ response.total = 0
              /\ response.matches = <<>>
              /\ lookups = <<>>
        /\ (request.name = "semantic_search" /\ status # 0
                /\ ~IsNoMatchExit(request.recursive, status)) =>
              /\ response.isError
              /\ "matches" \notin DOMAIN response
              /\ lookups = <<>>
        /\ (request.name = "semantic_search" /\ status = 0) => ~response.isError

\* the recursive pipeline exited with status 123 after the tool had written
\* a block, and the response is a normal one without matches
C18_Witness ==
    /\ pc = "done"
    /\ request.recursive
    /\ status = 123
    /\ Len(toolBlocks) = 1
    /\ toolBlocks[1].valid
    /\ ~response.isError
    /\ response.total = 0
    /\ response.matches = <<>>

(***************************************************************************)
(* Properties of parseRipgrepOutput, stated over the blocks the tool wrote *)
(* and the lines the two patterns recognize in them.                       *)
(***************************************************************************)
\* the line number and content of a line, when one of the patterns
\* recognizes it (the match-line pattern first)
EntryOf(line) ==
    LET m == MatchLineMatch(line)
        c == ContextLineMatch(line)
    IN  IF m.ok THEN [ok |-> TRUE, num |-> parseInt(m.num), text |-> m.text]
        ELSE IF c.ok THEN [ok |-> TRUE, num |-> parseInt(c.num), text |-> c.text]
        ELSE [ok |-> FALSE, num |-> 0, text |-> <<>>]

\* the recognized lines of a block, in input order
Entries(block) ==
    SelectSeq([i \in 1..Len(block.lines) |-> EntryOf(block.lines[i])], LAMBDA e : e.ok)

\* the positions of the match lines of a block
MatchLinesOf(block) == {i \in 1..Len(block.lines) : MatchLineMatch(block.lines[i]).ok}

\* the match lines of a block in input order: relativized file, line number
\* and content
MatchLinesIn(block) ==
    LET ms == SelectSeq([i \in 1..Len(block.lines) |-> MatchLineMatch(block.lines[i])],
                        LAMBDA m : m.ok)
    IN  [k \in 1..Len(ms) |-> [file |-> relativePath(ms[k].file, basePath),
                               line |-> parseInt(ms[k].num),
                               text |-> ms[k].text]]

\* what a block holds: whether it has a match line, the relativized file and
\* the line number of its last match line, and its recognized lines
FactsOf(block) ==
    LET at == MatchLinesOf(block)
        last == CHOOSE i \in at : \A j \in at : j <= i
        m == MatchLineMatch(block.lines[last])
    IN  [matched |-> at # {},
         file |-> IF at = {} THEN <<>> ELSE relativePath(m.file, basePath),
         line |-> IF at = {} THEN 0 ELSE parseInt(m.num),
         entries |-> Entries(block),
         matchLines |-> MatchLinesIn(block)]

\* a block in which a match line was recognized, with a non-empty
\* relativized file and a line number above 0
HasMatchLine(facts) == facts.matched /\ facts.file # <<>> /\ facts.line > 0

\* the facts of the blocks with a match line, in block order
BlocksWithMatchLine ==
    SelectSeq([i \in 1..Len(rgBlocks) |-> FactsOf(rgBlocks[i])], HasMatchLine)

\* C5: the locations are, in block order, one for each block in which a
\* match line was recognized, with that line's file and number; a block of
\* context lines or unrecognized lines only gives none; there are never
\* more locations than blocks.
C5_OneLocationPerMatchBlock ==
    pc = "parsed" =>
        LET blocks == BlocksWithMatchLine
        IN  /\ Len(locations) = Len(blocks)
            /\ \A k \in 1..Len(locations) :
                  /\ locations[k].file = blocks[k].file
                  /\ locations[k].line = blocks[k].line
            /\ (\A i \in 1..Len(rgBlocks) : MatchLinesOf(rgBlocks[i]) = {}) => locations = <<>>
            /\ Len(locations) <= Len(rgBlocks)

\* the tool wrote a block of context lines only and then a block with a
\* match line, and one location was returned
C5_Witness ==
    /\ pc = "parsed"
    /\ Len(rgBlocks) = 2
    /\ Len(rgBlocks[1].lines) = 2
    /\ MatchLinesOf(rgBlocks[1]) = {}
    /\ \A i \in 1..2 : ContextLineMatch(rgBlocks[1].lines[i]).ok
    /\ HasMatchLine(FactsOf(rgBlocks[2]))
    /\ Len(locations) = 1

\* whether text is the contents of all entries, joined with newlines, in an
\* order ascending by line number (with inOrder: entries of the same line
\* number in their input order)
IsAscendingJoin(text, entries, inOrder) ==
    \E p \in Perms(Len(entries)) :
        /\ \A i, j \in 1..Len(entries) :
              i < j => \/ entries[p[i]].num < entries[p[j]].num
                       \/ /\ entries[p[i]].num = entries[p[j]].num
                          /\ inOrder => p[i] < p[j]
        /\ text = join([i \in 1..Len(entries) |-> entries[p[i]].text], <<NL>>)

\* C6: the context of the location of a block is the contents of all its
\* recognized match and context lines, without their file and line-number
\* prefix, in ascending order of line number, joined with newlines.
C6_ContextSortedByLineNumber ==
    pc = "parsed" =>
        LET blocks == BlocksWithMatchLine
        IN  /\ Len(locations) = Len(blocks)
            /\ \A k \in 1..Len(locations) :
                  IsAscendingJoin(locations[k].context, blocks[k].entries, FALSE)

\* the tool wrote line 10 before line 2 in a block, and the location's
\* context has the content of line 2 first
C6_Witness ==
    /\ pc = "parsed"
    /\ Len(rgBlocks) = 1
    /\ Len(locations) = 1
    /\ LET e == Entries(rgBlocks[1])
       IN  /\ Len(e) = 2
           /\ e[1].num = 10
           /\ e[2].num = 2
           /\ locations[1].context = e[2].text \o <<NL>> \o e[1].text

\* the line numbers of a sequence of entries
NumbersOf(entries) == {entries[i].num : i \in 1..Len(entries)}

\* C7 as stated: the entries of a block are unique by line number, so the
\* context of its location holds one content for each line number of the
\* block.
C7_UniqueByLineNumber ==
    pc = "parsed" =>
        LET blocks == BlocksWithMatchLine
        IN  /\ Len(locations) = Len(blocks)
            /\ \A k \in 1..Len(locations) :
                  Len(split(locations[k].context, <<NL>>))
                      = Cardinality(NumbersOf(blocks[k].entries))

\* C7 amended: the entries of a block are not de-duplicated: the context of
\* its location holds one content for each recognized line, in
\* non-decreasing order of line number, lines of the same number in input
\* order; it is strictly increasing exactly when no number occurs twice.
C7_EveryLineKept ==
    pc = "parsed" =>
        LET blocks == BlocksWithMatchLine
        IN  /\ Len(locations) = Len(blocks)
            /\ \A k \in 1..Len(locations) :
                  /\ Len(split(locations[k].context, <<NL>>)) = Len(blocks[k].entries)
                  /\ IsAscendingJoin(locations[k].context, blocks[k].entries, TRUE)
                  /\ Len(blocks[k].entries) >= Cardinality(NumbersOf(blocks[k].entries))

\* the tool wrote the same line number twice in a block, and the location's
\* context holds both contents, in input order
C7_Witness ==
    /\ pc = "parsed"
    /\ Len(rgBlocks) = 1
    /\ Len(locations) = 1
    /\ LET e == Entries(rgBlocks[1])
       IN  /\ Len(e) = 2
           /\ e[1].num = e[2].num
           /\ locations[1].context = e[1].text \o <<NL>> \o e[2].text

\* C19: a block with several match lines gives one location and no more;
\* the file and the line of that location are those of the last match line
\* of the block in input order, and the content of every match line of the
\* block is a line of its context.
C19_LastMatchLineDesignates ==
    pc = "parsed" =>
        LET blocks == BlocksWithMatchLine
        IN  /\ Len(locations) = Len(blocks)
            /\ \A k \in 1..Len(locations) :
                  LET ms == blocks[k].matchLines
                      context == split(locations[k].context, <<NL>>)
                  IN  Len(ms) >= 2 =>
                         /\ locations[k].file = ms[Len(ms)].file
                         /\ locations[k].line = ms[Len(ms)].line
                         /\ \A i \in 1..Len(ms) :
                               \E j \in 1..Len(context) : context[j] = ms[i].text

\* the tool wrote one block with the match lines 2 and 10 of one file, in
\* that order, and the one location has line 10 and both contents
C19_Witness ==
    /\ pc = "parsed"
    /\ Len(rgBlocks) = 1
    /\ Len(locations) = 1
    /\ LET ms == MatchLinesIn(rgBlocks[1])
       IN  /\ Len(ms) = 2
           /\ ms[1].line = 2
           /\ ms[2].line = 10
           /\ ms[1].file = ms[2].file
           /\ locations[1].line = 10
           /\ locations[1].context = ms[1].text \o <<NL>> \o ms[2].text

(***************************************************************************)
(* Properties of relativePath.                                             *)
(***************************************************************************)
\* the base directory named by a base, without its own trailing separator
BaseDir(b) == IF b # <<>> /\ b[Len(b)] = SEP THEN SubSeq(b, 1, Len(b) - 1) ELSE b

\* C8: a path equal to the base gives the empty string; otherwise a path
\* that begins with the base directory followed by a separator gives what
\* follows that separator; otherwise the path is returned unchanged, as for
\* base /a/b and path /a/bc/x; path /a/b/ against base /a/b gives the
\* empty string.
C8_RelativePathCases ==
    /\ pc = "done" =>
          LET prefix == BaseDir(basePath) \o <<SEP>>
          IN  IF filePath = basePath THEN relative = <<>>
              ELSE IF Len(filePath) >= Len(prefix)
                      /\ \A i \in 1..Len(prefix) : filePath[i] = prefix[i]
                   THEN /\ prefix \o relative = filePath
                   ELSE relative = filePath
    /\ relativePath(<<"/", "a", "/", "b", "c", "/", "x">>, <<"/", "a", "/", "b">>)
          = <<"/", "a", "/", "b", "c", "/", "x">>
    /\ relativePath(<<"/", "a", "/", "b", "/">>, <<"/", "a", "/", "b">>) = <<>>

\* the base /a is a string prefix of the sibling /ab, and the path /ab/a is
\* returned unchanged
C8_Witness ==
    /\ pc = "done"
    /\ basePath = <<"/", "a">>
    /\ filePath = <<"/", "a", "b", "/", "a">>
    /\ relative = filePath

\* C9: for a non-root base b without a trailing separator, relativePath(p,
\* b + "/") equals relativePath(p, b) for every path p, the path p = b
\* included, where both give the empty string.
C9_TrailingSeparatorIgnored ==
    (pc = "done" /\ basePath # <<>> /\ basePath[Len(basePath)] # SEP)
        => /\ relativePath(filePath, basePath \o <<SEP>>) = relative
           /\ filePath = basePath =>
                 relativePath(filePath, basePath \o <<SEP>>) = <<>>

(***************************************************************************)
(* Properties of escapeForShell.                                           *)
(***************************************************************************)
\* each character escaped on its own
RECURSIVE EscapeEach(_)
EscapeEach(s) ==
    IF s = <<>> THEN <<>>
    ELSE (IF Head(s) \in Special THEN <<BACKSLASH, Head(s)>> ELSE <<Head(s)>>)
             \o EscapeEach(Tail(s))

\* the backslash in front of each escaped character removed, left to right
RECURSIVE Unescape(_)
Unescape(s) ==
    IF s = <<>> THEN <<>>
    ELSE IF Head(s) = BACKSLASH /\ Len(s) >= 2 /\ s[2] \in Special
         THEN <<s[2]>> \o Unescape(SubSeq(s, 3, Len(s)))
         ELSE <<Head(s)>> \o Unescape(Tail(s))

\* C10: every backslash, double quote, dollar sign and backtick is replaced
\* by a backslash and that character, everything else stays in place; the
\* output is longer than the input by the number of special characters, and
\* removing the backslash in front of each escaped character restores the
\* input.
C10_EscapeEachSpecialOnce ==
    pc = "done" =>
        /\ escaped = EscapeEach(str)
        /\ Len(escaped) = Len(str) + Cardinality({i \in 1..Len(str) : str[i] \in Special})
        /\ Unescape(escaped) = str

\* a string holding all four special characters was escaped
C10_Witness ==
    /\ pc = "done"
    /\ Special \subseteq {str[i] : i \in 1..Len(str)}
    /\ Len(escaped) = 8

=============================================================================
